---- MODULE Spec2Model ----
(***************************************************************************)
(* TOPSIS web service (backend/app.py): the ranking engine perform_topsis  *)
(* and the request handler topsis_api.                                     *)
(*                                                                         *)
(* Numbers.  The engine works on floats; the model computes the same       *)
(* quantities exactly.  A column of the normalized / weighted matrix is a  *)
(* list of integer numerators over the column's norm, and the norm is     *)
(* kept as its radicand (norm^2): the entry is num / sqrt(rad).  A         *)
(* distance is kept as the radicand of its square root, as a numerator     *)
(* over the common denominator Scale(rad) = product of the column          *)
(* radicands.  NaN is a reserved value that every operation propagates.    *)
(* Rounding error, overflow and the final np.round(., 6) of the score      *)
(* column are outside the model: topsis_score below is the array of        *)
(* line 98.                                                                *)
(***************************************************************************)
EXTENDS Integers, Sequences, FiniteSets, TLC

\* ---------------------------------------------------------------- bounds
MaxRows == 3
MaxCols == 3
\* The largest decision matrix: rows * criteria <= MaxCells.
MaxCells == 6
CellValues == {0, 1}
WeightValues == {0, 1, 2}
ImpactTags == {"+", "-"}
\* The order argsort (default kind, not stable) leaves equal keys in.
SortImpls == {"ascending", "descending"}

\* ------------------------------------------------------- float arithmetic
NaN == -1000

\* A data frame cell of a column pandas could not read as numbers.
TEXT == -2000

IsNaN(x) == x = NaN

Mul(a, b) == IF IsNaN(a) \/ IsNaN(b) THEN NaN ELSE a * b

Add(a, b) == IF IsNaN(a) \/ IsNaN(b) THEN NaN ELSE a + b

\* An ndarray holding the entries of f, each computed once.
Array(f) == f \o <<>>

RECURSIVE Sum(_)
Sum(s) == IF s = <<>> THEN 0 ELSE Add(Head(s), Sum(Tail(s)))

RECURSIVE Prod(_)
Prod(s) == IF s = <<>> THEN 1 ELSE Head(s) * Prod(Tail(s))

\* np.sqrt: the value is kept as its radicand; a negative argument gives nan.
Sqrt(x) == IF IsNaN(x) \/ x < 0 THEN NaN ELSE x

\* ndarray.max() / ndarray.min() of a column of numerators: nan propagates.
ColMax(col) == IF \E i \in DOMAIN col : IsNaN(col[i]) THEN NaN
               ELSE CHOOSE x \in {col[i] : i \in DOMAIN col} :
                        \A i \in DOMAIN col : col[i] <= x

ColMin(col) == IF \E i \in DOMAIN col : IsNaN(col[i]) THEN NaN
               ELSE CHOOSE x \in {col[i] : i \in DOMAIN col} :
                        \A i \in DOMAIN col : x <= col[i]

\* ----------------------------------------------------------- perform_topsis
\* df: [ncols |-> number of columns, rows |-> the rows], a row being
\* <<name, criterion 1, ..., criterion ncols-1>>.

\* df.iloc[:, 1:].values.astype(float)
decision_matrix(df) == Array([i \in 1..Len(df.rows) |-> Tail(df.rows[i])])

NumCriteria(df) == df.ncols - 1

Column(m, j) == Array([i \in 1..Len(m) |-> m[i][j]])

\* np.sqrt((decision_matrix ** 2).sum(axis=0)), then norms[norms == 0] = 1.
\* The entry is the radicand: sqrt(s) = 0 exactly when s = 0, and 1 = sqrt(1).
norms_mutant_no_guard(dm, M) ==
    Array([j \in 1..M |->
        Sqrt(Sum(Array([i \in 1..Len(dm) |-> Mul(dm[i][j], dm[i][j])])))])

norms(dm, M) ==
    Array([j \in 1..M |->
        LET s == Sqrt(Sum(Array([i \in 1..Len(dm) |-> Mul(dm[i][j], dm[i][j])])))
        IN  IF s = 0 THEN 1 ELSE s])

\* x / norm for one entry: 0 / 0 is nan.
DivNorm(x, nrm) == IF IsNaN(x) \/ IsNaN(nrm) \/ (nrm = 0 /\ x = 0) THEN NaN ELSE x

\* decision_matrix / norms
normalized_matrix(dm, nrms) ==
    [num |-> Array([i \in 1..Len(dm) |->
                 Array([j \in 1..Len(nrms) |-> DivNorm(dm[i][j], nrms[j])])]),
     rad |-> Array([j \in 1..Len(nrms) |->
                 IF IsNaN(nrms[j]) \/ nrms[j] = 0 THEN 1 ELSE nrms[j]])]

\* numpy broadcasting of an (N, M) array with an (L,) array.
Broadcastable(M, L) == M = L \/ M = 1 \/ L = 1

BroadcastLen(M, L) == IF M = 1 THEN L ELSE M

Pick(len, j) == IF len = 1 THEN 1 ELSE j

\* normalized_matrix * weight_array
weighted_matrix(nm, weight_array) ==
    LET M == Len(nm.rad)
        L == Len(weight_array)
        K == BroadcastLen(M, L)
    IN  [num |-> Array([i \in 1..Len(nm.num) |->
                    Array([j \in 1..K |-> Mul(nm.num[i][Pick(M, j)],
                                              weight_array[Pick(L, j)])])]),
         rad |-> Array([j \in 1..K |-> nm.rad[Pick(M, j)]])]

\* The loop of lines 82-88 over enumerate(impacts), on np.zeros(len(weights)).
ideal_best(wm, L, impacts) ==
    [num |-> Array([j \in 1..L |->
                IF j > Len(impacts) THEN 0
                ELSE IF impacts[j] = "+" THEN ColMax(Column(wm.num, j))
                ELSE ColMin(Column(wm.num, j))]),
     rad |-> Array([j \in 1..L |-> IF j > Len(impacts) THEN 1 ELSE wm.rad[j]])]

ideal_worst(wm, L, impacts) ==
    [num |-> Array([j \in 1..L |->
                IF j > Len(impacts) THEN 0
                ELSE IF impacts[j] = "+" THEN ColMin(Column(wm.num, j))
                ELSE ColMax(Column(wm.num, j))]),
     rad |-> Array([j \in 1..L |-> IF j > Len(impacts) THEN 1 ELSE wm.rad[j]])]

\* The product of the column radicands: the common denominator of the
\* squared distances.
Scale(rad) == Prod(rad)

SqDiff_mutant_no_square(a, ra, b, rb, D) ==
    IF IsNaN(a) \/ IsNaN(b) THEN NaN ELSE (a - b) * (D \div ra)

\* (a/sqrt(ra) - b/sqrt(rb)) ** 2 as a numerator over D.  The difference is
\* rational when the two radicands agree or one side is 0.
SqDiff(a, ra, b, rb, D) ==
    IF IsNaN(a) \/ IsNaN(b) THEN NaN
    ELSE IF ra = rb \/ b = 0 THEN (a - b) * (a - b) * (D \div ra)
    ELSE b * b * (D \div rb)

\* Whether every difference weighted_matrix - ideal is rational.
Exact(wm, ideal) ==
    \A i \in 1..Len(wm.num) : \A j \in 1..Len(wm.rad) :
        LET k == Pick(Len(ideal.num), j)
        IN  \/ IsNaN(wm.num[i][j]) \/ IsNaN(ideal.num[k])
            \/ wm.rad[j] = ideal.rad[k]
            \/ ideal.num[k] = 0
            \/ wm.num[i][j] = 0

\* np.sqrt(((weighted_matrix - ideal) ** 2).sum(axis=1))
distance(wm, ideal) ==
    LET D == Scale(wm.rad)
    IN  Array([i \in 1..Len(wm.num) |->
            Sqrt(Sum(Array([j \in 1..Len(wm.rad) |->
                        LET k == Pick(Len(ideal.num), j)
                        IN  SqDiff(wm.num[i][j], wm.rad[j],
                                   ideal.num[k], ideal.rad[k], D)])))])

\* distance_best + distance_worst: the sum sqrt(a) + sqrt(b) of two roots,
\* kept as its two radicands.
SumOfRoots(x, y) == [nan |-> IsNaN(x) \/ IsNaN(y), a |-> x, b |-> y]

IsZeroSum(d) == ~d.nan /\ d.a = 0 /\ d.b = 0

\* denominator = distance_best + distance_worst; denominator[denominator == 0] = 1.
\* The number 1 is sqrt(D) over the common denominator.
denominator_mutant_no_guard(db, dw, D) ==
    Array([i \in 1..Len(db) |-> SumOfRoots(db[i], dw[i])])

denominator(db, dw, D) ==
    Array([i \in 1..Len(db) |->
        LET d == SumOfRoots(db[i], dw[i])
        IN  IF IsZeroSum(d) THEN SumOfRoots(D, 0) ELSE d])

NaNScore == [nan |-> TRUE, neg |-> FALSE, num |-> 0, den |-> SumOfRoots(0, 0)]

\* distance_worst / denominator for one alternative: sqrt(num) / (sqrt(den.a) +
\* sqrt(den.b)); 0 / 0 is nan.
Quotient(x, d) ==
    IF IsNaN(x) \/ d.nan \/ (x = 0 /\ IsZeroSum(d)) THEN NaNScore
    ELSE [nan |-> FALSE, neg |-> FALSE, num |-> x, den |-> d]

topsis_score(dw, den) == Array([i \in 1..Len(dw) |-> Quotient(dw[i], den[i])])

\* -x
Neg(x) == [x EXCEPT !.neg = ~@]

IsZeroScore(x) == x.num = 0

\* x < y for two scores that are not nan and not negated.  Every quotient of
\* line 98 has num = den.b (its numerator is the second summand of its
\* denominator) or is 0 / 1, so that
\*   sqrt(x.num) * (sqrt(y.den.a) + sqrt(y.den.b))
\*       < sqrt(y.num) * (sqrt(x.den.a) + sqrt(x.den.b))
\* is  x.num * y.den.a < y.num * x.den.a.
MagLess(x, y) == x.num * y.den.a < y.num * x.den.a

\* The float comparison x < y (false when either is nan).
FloatLess(x, y) ==
    /\ ~x.nan /\ ~y.nan
    /\ CASE ~x.neg /\ ~y.neg -> MagLess(x, y)
         [] x.neg /\ y.neg -> MagLess(y, x)
         [] x.neg /\ ~y.neg -> ~(IsZeroScore(x) /\ IsZeroScore(y))
         [] OTHER -> FALSE

\* The order of a float sort: nan sorts last.
SortLess(x, y) == FloatLess(x, y) \/ (~x.nan /\ y.nan)

IntLess(x, y) == x < y

\* Where the sort implementation leaves two equal keys at positions i, j.
TieBefore(impl, i, j) == IF impl = "ascending" THEN i < j ELSE j < i

\* The comparisons the sort makes: lt[i][j] is keys[i] < keys[j].
FloatKeys(keys) ==
    Array([i \in 1..Len(keys) |->
        Array([j \in 1..Len(keys) |-> SortLess(keys[i], keys[j])])])

IntKeys(keys) ==
    Array([i \in 1..Len(keys) |->
        Array([j \in 1..Len(keys) |-> IntLess(keys[i], keys[j])])])

\* ndarray.argsort(): the 0-based indices of the keys in sorted order.
argsort(lt, impl) ==
    LET n == Len(lt)
        Before(i, j) == IF lt[i][j] THEN TRUE
                        ELSE ~lt[j][i] /\ TieBefore(impl, i, j)
    IN  Array([p \in 1..n |->
            (CHOOSE i \in 1..n :
                Cardinality({k \in 1..n : k # i /\ Before(k, i)}) = p - 1) - 1])

\* ranks = (-topsis_score).argsort().argsort() + 1
ranks_mutant_competition(score, impl) ==
    Array([i \in 1..Len(score) |->
        Cardinality({k \in 1..Len(score) : FloatLess(score[i], score[k])}) + 1])

ranks_mutant_ascending(score, impl) ==
    LET order == argsort(FloatKeys(score), impl)
        pos == argsort(IntKeys(order), impl)
    IN  Array([i \in 1..Len(score) |-> pos[i] + 1])

ranks(score, impl) ==
    LET order == argsort(FloatKeys(Array([i \in 1..Len(score) |->
                                                 Neg(score[i])])), impl)
        pos == argsort(IntKeys(order), impl)
    IN  Array([i \in 1..Len(score) |-> pos[i] + 1])

NoLocals == [norms |-> <<>>, weighted |-> [num |-> <<>>, rad |-> <<>>],
             best |-> [num |-> <<>>, rad |-> <<>>],
             worst |-> [num |-> <<>>, rad |-> <<>>],
             distance_best |-> <<>>, distance_worst |-> <<>>]

\* A call that raised `kind`: no columns are returned.
Raised(kind) == [kind |-> kind, score |-> <<>>, rank |-> <<>>, locals |-> NoLocals]

\* The inputs whose distances the arithmetic above represents: the call
\* raises before line 91, or every difference of line 91-92 is rational.
Representable(df, weights, impacts) ==
    LET dm == decision_matrix(df)
        M == NumCriteria(df)
        L == Len(weights)
        wm == weighted_matrix(normalized_matrix(dm, norms(dm, M)), weights)
    IN  IF ~Broadcastable(M, L) \/ Len(impacts) > L THEN TRUE
        ELSE Exact(wm, ideal_best(wm, L, impacts))
             /\ Exact(wm, ideal_worst(wm, L, impacts))

\* perform_topsis(df, weights, impacts), with the sort implementation of the
\* build.  The result is the two columns added to the copy of df, or the
\* exception raised; locals keeps the arrays of lines 70-92 as they are when
\* the function returns.
perform_topsis(df, weights, impacts, impl) ==
    LET dm == decision_matrix(df)
        M == NumCriteria(df)
        L == Len(weights)
        nrms == norms(dm, M)
        nm == normalized_matrix(dm, nrms)
        wm == weighted_matrix(nm, weights)
        best == ideal_best(wm, L, impacts)
        worst == ideal_worst(wm, L, impacts)
        db == distance(wm, best)
        dw == distance(wm, worst)
        den == denominator(db, dw, Scale(wm.rad))
        score == topsis_score(dw, den)
    IN  IF ~Broadcastable(M, L) THEN Raised("ValueError")
        ELSE IF Len(impacts) > L THEN Raised("IndexError")
        ELSE IF Len(impacts) > 0 /\ Len(dm) = 0 THEN Raised("ValueError")
        ELSE [kind |-> "ok", score |-> score, rank |-> ranks(score, impl),
              locals |-> [norms |-> nrms, weighted |-> wm, best |-> best,
                          worst |-> worst, distance_best |-> db,
                          distance_worst |-> dw]]


\* --------------------------------------------------------- request parsing
\* Strings are sequences of one-character strings.
IsSpace(c) == c = " "

RECURSIVE lstrip(_)
lstrip(s) == IF s # <<>> /\ IsSpace(Head(s)) THEN lstrip(Tail(s)) ELSE s

RECURSIVE rstrip(_)
rstrip(s) == IF s # <<>> /\ IsSpace(s[Len(s)])
             THEN rstrip(SubSeq(s, 1, Len(s) - 1)) ELSE s

\* str.strip()
strip(s) == rstrip(lstrip(s))

\* str.split(sep)
RECURSIVE split(_, _)
split(s, sep) ==
    IF \A i \in 1..Len(s) : s[i] # sep THEN <<s>>
    ELSE LET i == CHOOSE k \in 1..Len(s) :
                      s[k] = sep /\ \A l \in 1..(k - 1) : s[l] # sep
         IN  <<SubSeq(s, 1, i - 1)>> \o split(SubSeq(s, i + 1, Len(s)), sep)

Digits == <<"0", "1", "2", "3", "4", "5", "6", "7", "8", "9">>

IsDigit(c) == \E d \in 1..10 : Digits[d] = c

DigitValue(c) == (CHOOSE d \in 1..10 : Digits[d] = c) - 1

RECURSIVE Decimal(_)
Decimal(s) == IF s = <<>> THEN 0
              ELSE 10 * Decimal(SubSeq(s, 1, Len(s) - 1)) + DigitValue(s[Len(s)])

\* float(s) for strings of digits, signs, blanks and letters: an optional
\* sign and at least one digit, blanks around them ignored.  ok = FALSE is
\* ValueError.
float(s) ==
    LET t == strip(s)
        signed == t # <<>> /\ Head(t) \in {"+", "-"}
        body == IF signed THEN Tail(t) ELSE t
        ok == body # <<>> /\ \A i \in 1..Len(body) : IsDigit(body[i])
    IN  [ok |-> ok,
         value |-> IF ~ok THEN 0
                   ELSE IF signed /\ Head(t) = "-" THEN 0 - Decimal(body)
                   ELSE Decimal(body)]

\* re.match(r'^[^\s@]+@[^\s@]+\.[^\s@]+$', email) is not None
validate_email_format(email) ==
    \E at \in 2..(Len(email) - 3) :
        /\ email[at] = "@"
        /\ \A i \in 1..Len(email) :
               /\ ~IsSpace(email[i])
               /\ (email[i] = "@" => i = at)
        /\ \E dot \in (at + 2)..(Len(email) - 1) : email[dot] = "."

\* validate_weights: (weights, None) or (None, message)
validate_weights(weights_str) ==
    LET toks == split(weights_str, ",")
        vals == Array([i \in 1..Len(toks) |-> float(strip(toks[i]))])
    IN  IF \E i \in 1..Len(toks) : ~vals[i].ok
        THEN [error |-> TRUE, value |-> <<>>]
        ELSE [error |-> FALSE,
              value |-> Array([i \in 1..Len(toks) |-> vals[i].value])]

\* validate_impacts: (impacts, None) or (None, message)
validate_impacts(impacts_str) ==
    LET toks == split(impacts_str, ",")
        imps == Array([i \in 1..Len(toks) |-> strip(toks[i])])
    IN  IF \E i \in 1..Len(toks) : imps[i] \notin {<<"+">>, <<"-">>}
        THEN [error |-> TRUE, value |-> <<>>]
        ELSE [error |-> FALSE,
              value |-> Array([i \in 1..Len(toks) |-> imps[i][1]])]

\* pd.read_csv(file) of a readable file: a header of ncols names, then rows
\* of ncols fields whose first field is the name.  An empty field reads as
\* nan; a field that is no number leaves its column non-numeric.
ReadField(f) == IF f = <<>> THEN NaN
                ELSE IF float(f).ok THEN float(f).value ELSE TEXT

read_csv(file) ==
    [ncols |-> file.ncols,
     rows |-> Array([i \in 1..Len(file.lines) |->
                <<i>> \o Array([j \in 1..(file.ncols - 1) |->
                                   ReadField(file.lines[i][j + 1])])])]

\* Lines 243-248: every criteria column is numeric or pd.to_numeric converts it.
ColumnsNumeric(d) ==
    \A i \in 1..Len(d.rows) : \A j \in 2..d.ncols : d.rows[i][j] # TEXT

\* Line 232.
MinColumnsOk(d) == ~(d.ncols < 3)

\* Line 237.
CriteriaCountOk_mutant_unchecked(w, d) == TRUE

CriteriaCountOk(w, d) == ~(Len(w) # NumCriteria(d))

\* ------------------------------------------------------------ request data
WeightStrings ==
    { <<>>, <<" ">>, <<"1">>, <<"2", ",", " ", "1">>, <<"1", ",", "x">>,
      <<"1", ",">>, <<"1", ",", "0", ",", "2">>, <<" ", "+", "1", ",", "1", " ">> }

ImpactStrings ==
    { <<>>, <<"+">>, <<"-", ",", " ", "+">>, <<"+", ",", "x">>, <<"+", "-">>,
      <<" ", "+", ",", "-", ",", "+">> }

EmailStrings ==
    { <<>>, <<" ", "a", "@", "b", ".", "c">>, <<"a", "@", "b">>,
      <<"a", " ", "b", "@", "c", ".", "d">>, <<"a", "@", "@", "b", ".", "c">> }

CsvFields == { <<"1">>, <<>>, <<"x">> }

\* The uploads: one that pd.read_csv rejects, and the tables of up to
\* MaxRows rows and MaxCols criteria columns.
Unreadable == [readable |-> FALSE, ncols |-> 0, lines |-> <<>>]

CsvFiles ==
    {Unreadable} \cup
    UNION { { [readable |-> TRUE, ncols |-> m + 1,
               lines |-> [i \in 1..n |-> <<<<"A">>>> \o body[i]]] :
              body \in [1..n -> [1..m -> CsvFields]] } :
            <<n, m>> \in { nm \in (0..MaxRows) \X (1..MaxCols) :
                             nm[1] * nm[2] <= MaxCells } }

\* ------------------------------------------------------------------ state
VARIABLES
    \* perform_topsis: its arguments and what it returned; in a request, the
    \* handler's df, weights, impacts and result_df.
    df, weights, impacts, result,
    sort_impl,          \* the build's argsort
    smtp_configured,    \* SENDER_EMAIL and SENDER_PASSWORD are both set
    pc,                 \* where topsis_api is
    req,                \* file, weights_str, impacts_str, email
    steps,              \* the steps of topsis_api taken so far
    status,             \* the HTTP status returned, 0 before the response
    body,               \* the flags of the JSON response
    tmp_path,           \* whether the temporary file was created
    tmp_exists,         \* whether it is on disk
    email_result        \* what send_email_with_attachment did

vars == <<df, weights, impacts, result, sort_impl, smtp_configured, pc, req,
          steps, status, body, tmp_path, tmp_exists, email_result>>

engine_vars == <<df, weights, impacts, result>>

api_vars == <<pc, req, steps, status, body, tmp_path, tmp_exists, email_result>>

\* A data frame of n alternatives named 1..n over the criterion rows of m.
DataFrame(m, ncrit) ==
    [ncols |-> ncrit + 1, rows |-> Array([i \in 1..Len(m) |-> <<i>> \o m[i]])]

NoFrame == [ncols |-> 1, rows |-> <<>>]

NoRequest == [file |-> FALSE, weights_str |-> <<>>, impacts_str |-> <<>>,
              email |-> <<>>]

NoBody == [success |-> "absent", email_sent |-> "absent"]

Shapes == { nm \in (1..MaxRows) \X (1..MaxCols) : nm[1] * nm[2] <= MaxCells }

Matrices(n, m) == [1..n -> [1..m -> CellValues]]

Init ==
    /\ df = NoFrame
    /\ weights = <<>>
    /\ impacts = <<>>
    /\ result = Raised("none")
    /\ sort_impl \in SortImpls
    /\ smtp_configured = FALSE
    /\ pc = "idle"
    /\ req = NoRequest
    /\ steps = <<>>
    /\ status = 0
    /\ body = NoBody
    /\ tmp_path = FALSE
    /\ tmp_exists = FALSE
    /\ email_result = "none"

\* ----------------------------------------------------- the engine, called
\* One call perform_topsis(df, weights, impacts) by a caller that has checked
\* the two lengths against the criteria columns, as topsis_api does.
Rank ==
    /\ pc = "idle" /\ result.kind = "none"
    /\ \E nm \in Shapes :
         \E mat \in Matrices(nm[1], nm[2]),
            w \in [1..nm[2] -> WeightValues], imp \in [1..nm[2] -> ImpactTags] :
            /\ df' = DataFrame(mat, nm[2])
            /\ weights' = w
            /\ impacts' = imp
            /\ result' = perform_topsis(DataFrame(mat, nm[2]), w, imp, sort_impl)
    /\ UNCHANGED <<sort_impl, smtp_configured, api_vars>>

\* One call by any caller: the lengths of weights and impacts are free.  The
\* inputs are those whose distances the model's arithmetic represents.
RankUnchecked ==
    /\ pc = "idle" /\ result.kind = "none"
    /\ \E nm \in Shapes, L \in 1..MaxCols, P \in 1..MaxCols :
         \E mat \in Matrices(nm[1], nm[2]), w \in [1..L -> WeightValues] :
         \E imp \in { t \in [1..P -> ImpactTags] :
                        Representable(DataFrame(mat, nm[2]), w, t) } :
            /\ df' = DataFrame(mat, nm[2])
            /\ weights' = w
            /\ impacts' = imp
            /\ result' = perform_topsis(DataFrame(mat, nm[2]), w, imp, sort_impl)
    /\ UNCHANGED <<sort_impl, smtp_configured, api_vars>>

\* ------------------------------------------------------------- topsis_api
\* One step of the handler at `here`: on to `next` when the check passed,
\* else the response `code`.
Step(here, passed, next, code) ==
    /\ pc = here
    /\ steps' = Append(steps, here)
    /\ IF passed THEN pc' = next /\ status' = status
                 ELSE pc' = "done" /\ status' = code

\* The service starts (lines 23-26 read the SMTP settings) and a request
\* arrives: lines 190-193, the form fields, stripped.
Receive ==
    /\ pc = "idle" /\ result.kind = "none"
    /\ \E f \in BOOLEAN, ws \in WeightStrings, is \in ImpactStrings,
          em \in EmailStrings :
         req' = [file |-> f, weights_str |-> strip(ws),
                 impacts_str |-> strip(is), email |-> strip(em)]
    /\ smtp_configured' \in BOOLEAN
    /\ pc' = "file"
    /\ UNCHANGED <<engine_vars, sort_impl, steps, status, body,
                   tmp_path, tmp_exists, email_result>>

Rest == <<sort_impl, smtp_configured, req, body, tmp_path, tmp_exists,
          email_result>>

\* Lines 196-197.
CheckFile ==
    /\ Step("file", req.file, "weights_present", 400)
    /\ UNCHANGED <<engine_vars, Rest>>

\* Lines 198-199.
CheckWeightsPresent ==
    /\ Step("weights_present", req.weights_str # <<>>, "impacts_present", 400)
    /\ UNCHANGED <<engine_vars, Rest>>

\* Lines 200-201.
CheckImpactsPresent ==
    /\ Step("impacts_present", req.impacts_str # <<>>, "email_present", 400)
    /\ UNCHANGED <<engine_vars, Rest>>

\* Lines 202-203.
CheckEmailPresent ==
    /\ Step("email_present", req.email # <<>>, "email_format", 400)
    /\ UNCHANGED <<engine_vars, Rest>>

\* Lines 206-207.
CheckEmailFormat ==
    /\ Step("email_format", validate_email_format(req.email), "weights_numeric", 400)
    /\ UNCHANGED <<engine_vars, Rest>>

\* Lines 210-212.
ValidateWeights ==
    /\ Step("weights_numeric", ~validate_weights(req.weights_str).error,
            "impacts_valid", 400)
    /\ weights' = validate_weights(req.weights_str).value
    /\ UNCHANGED <<df, impacts, result, Rest>>

\* Lines 215-217.
ValidateImpacts ==
    /\ Step("impacts_valid", ~validate_impacts(req.impacts_str).error,
            "counts_match", 400)
    /\ impacts' = validate_impacts(req.impacts_str).value
    /\ UNCHANGED <<df, weights, result, Rest>>

\* Lines 220-223.
CheckCountsMatch ==
    /\ Step("counts_match", ~(Len(weights) # Len(impacts)), "read_csv", 400)
    /\ UNCHANGED <<engine_vars, Rest>>

\* Lines 226-229: the upload is read here.
ReadCsv ==
    /\ pc = "read_csv"
    /\ \E file \in CsvFiles :
         /\ Step("read_csv", file.readable, "min_columns", 400)
         /\ df' = IF file.readable THEN read_csv(file) ELSE df
    /\ UNCHANGED <<weights, impacts, result, Rest>>

\* Lines 232-233.
CheckMinColumns ==
    /\ Step("min_columns", MinColumnsOk(df), "criteria_count", 400)
    /\ UNCHANGED <<engine_vars, Rest>>

\* Lines 236-240.
CheckCriteriaCount ==
    /\ Step("criteria_count", CriteriaCountOk(weights, df), "columns_numeric", 400)
    /\ UNCHANGED <<engine_vars, Rest>>

\* Lines 243-248.
CheckNumericColumns ==
    /\ Step("columns_numeric", ColumnsNumeric(df), "perform_topsis", 400)
    /\ UNCHANGED <<engine_vars, Rest>>

\* Lines 251-254.
PerformTopsis ==
    /\ pc = "perform_topsis"
    /\ result' = perform_topsis(df, weights, impacts, sort_impl)
    /\ Step("perform_topsis", result'.kind = "ok", "save", 500)
    /\ UNCHANGED <<df, weights, impacts, Rest>>

\* Lines 257-259: the file is created (delete=False), then written.  A failed
\* write raises out of the handler: the response is the server's 500.
SaveResult ==
    /\ pc = "save"
    /\ \E written \in BOOLEAN : Step("save", written, "send", 500)
    /\ tmp_path' = TRUE
    /\ tmp_exists' = TRUE
    /\ UNCHANGED <<engine_vars, sort_impl, smtp_configured, req, body,
                   email_result>>

\* Line 264 and send_email_with_attachment (lines 111-164).
SendEmail ==
    /\ Step("send", TRUE, "respond", 200)
    /\ IF ~smtp_configured THEN email_result' = "not_configured"
       ELSE email_result' \in {"sent", "auth_failed", "failed"}
    /\ UNCHANGED <<engine_vars, sort_impl, smtp_configured, req, body, tmp_path,
                   tmp_exists>>

\* Lines 266-281: the response, and the finally clause on the way out.
Respond ==
    /\ Step("respond", FALSE, "done", 200)
    /\ body' = IF email_result = "sent"
               THEN [success |-> "true", email_sent |-> "absent"]
               ELSE [success |-> "true", email_sent |-> "false"]
    /\ tmp_exists' = FALSE
    /\ UNCHANGED <<engine_vars, sort_impl, smtp_configured, req, tmp_path,
                   email_result>>

Next == Rank

NextShapes == RankUnchecked

NextApi ==
    \/ Receive \/ CheckFile \/ CheckWeightsPresent \/ CheckImpactsPresent
    \/ CheckEmailPresent \/ CheckEmailFormat \/ ValidateWeights
    \/ ValidateImpacts \/ CheckCountsMatch \/ ReadCsv \/ CheckMinColumns
    \/ CheckCriteriaCount \/ CheckNumericColumns \/ PerformTopsis
    \/ SaveResult \/ SendEmail \/ Respond

Spec == Init /\ [][Next]_vars

SpecShapes == Init /\ [][NextShapes]_vars

SpecApi == Init /\ [][NextApi]_vars

\* ------------------------------------------------------- state functions
NumAlternatives == Len(df.rows)

cur_matrix == decision_matrix(df)

Returned == result.kind = "ok"

\* x = y as floats.
FloatEq(x, y) == ~x.nan /\ ~y.nan /\ ~FloatLess(x, y) /\ ~FloatLess(y, x)

\* sqrt(x) <= sqrt(d.a) + sqrt(d.b)
RootLeqSum(x, d) ==
    LET e == x - d.a - d.b IN e <= 0 \/ e * e <= 4 * d.a * d.b

\* 0 <= x <= 1 for a score x = sqrt(num) / (sqrt(den.a) + sqrt(den.b)).
InUnit(x) ==
    /\ ~x.nan /\ ~x.neg
    /\ x.num >= 0 /\ x.den.a >= 0 /\ x.den.b >= 0 /\ x.den.a + x.den.b > 0
    /\ RootLeqSum(x.num, x.den)

IsPermutation(r, n) == Len(r) = n /\ {r[i] : i \in 1..Len(r)} = 1..n

\* ------------------------------------------------------------------ claims

\* C1: the Rank column of every result is a permutation of 1..N, each rank
\* once, also when scores are equal.
RanksArePermutation ==
    Returned => IsPermutation(result.rank, NumAlternatives)

RanksArePermutation_witness ==
    /\ Returned /\ NumAlternatives = 3
    /\ \E i, j, k \in 1..3 :
          /\ i < j
          /\ FloatEq(result.score[i], result.score[j])
          /\ FloatLess(result.score[k], result.score[i])

\* The alternative i is at the ideal-best value on every criterion.
AttainsBest(i) ==
    \A j \in 1..NumCriteria(df) : result.locals.weighted.num[i][j] = result.locals.best.num[j]

\* C2: a higher score has a better (smaller) rank, rank 1 has the maximum
\* score, and the only alternative at the ideal-best value on every
\* criterion has rank 1.
RanksFollowScores ==
    Returned =>
        /\ \A i, j \in 1..NumAlternatives :
              FloatLess(result.score[j], result.score[i])
                  => result.rank[i] < result.rank[j]
        /\ \A i, k \in 1..NumAlternatives :
              result.rank[i] = 1 => ~FloatLess(result.score[i], result.score[k])
        /\ \A i \in 1..NumAlternatives :
              (AttainsBest(i) /\ \A k \in 1..NumAlternatives \ {i} : ~AttainsBest(k))
                  => result.rank[i] = 1

RanksFollowScores_witness ==
    /\ Returned /\ NumAlternatives = 3
    /\ \A i, j \in 1..3 :
          i # j => ~FloatEq(result.score[i], result.score[j])
    /\ AttainsBest(3) /\ ~AttainsBest(1) /\ ~AttainsBest(2)
    /\ result.rank[3] = 1

\* C3: of two alternatives with equal scores, the one earlier in the input
\* has the smaller rank, whatever the sort implementation.
TiesBrokenByInputIndex ==
    Returned =>
        \A i, j \in 1..NumAlternatives :
            (i < j /\ FloatEq(result.score[i], result.score[j]))
                => result.rank[i] < result.rank[j]

\* C4: for a rectangular matrix of finite values with weights and impacts of
\* matching length, every score is in [0, 1].
ScoresInUnitInterval ==
    (/\ Returned
     /\ Len(weights) = NumCriteria(df) /\ Len(impacts) = NumCriteria(df)
     /\ \A i \in 1..NumAlternatives : \A j \in 1..NumCriteria(df) :
           ~IsNaN(cur_matrix[i][j]))
        => \A i \in 1..NumAlternatives : InUnit(result.score[i])

ScoresInUnitInterval_witness ==
    /\ Returned /\ NumAlternatives = 3
    /\ \E i, j, k \in 1..3 :
          /\ FloatLess(result.score[i], result.score[j])
          /\ FloatLess(result.score[j], result.score[k])
          /\ IsZeroScore(result.score[i])
          /\ result.score[k].den.a = 0

\* C5: a call whose weights or impacts differ in length from the criteria
\* columns raises and returns no scores or ranks.
ShapeMismatchRaises ==
    (/\ result.kind # "none"
     /\ Len(weights) # NumCriteria(df) \/ Len(impacts) # NumCriteria(df))
        => /\ result.kind \in {"ValueError", "IndexError"}
           /\ result.score = <<>> /\ result.rank = <<>>

HasNaN(d) ==
    \E i \in 1..Len(d.rows) : \E j \in 2..d.ncols : IsNaN(d.rows[i][j])

\* C6: no score/rank table and no success response is produced for a matrix
\* with a non-finite entry.
NonFiniteEntryRejected ==
    HasNaN(df) => result.kind # "ok" /\ status # 200

\* Every criterion's weighted values are equal across the alternatives.
AllWeightedEqual ==
    \A j \in 1..NumCriteria(df) : \A i, k \in 1..NumAlternatives :
        result.locals.weighted.num[i][j] = result.locals.weighted.num[k][j]

\* C7: distance_best + distance_worst is 0 for an alternative only when all
\* weighted values are equal on every criterion; then every score is 0 (0 over
\* the substituted denominator 1), ranks 1..N are assigned and nothing raises.
ZeroDenominatorHandled ==
    /\ result.kind \in {"none", "ok"}
    /\ Returned =>
         \A i \in 1..NumAlternatives :
            (result.locals.distance_best[i] = 0 /\ result.locals.distance_worst[i] = 0)
                => /\ AllWeightedEqual
                   /\ \A k \in 1..NumAlternatives :
                         /\ ~result.score[k].nan
                         /\ result.score[k].num = 0
                         /\ result.score[k].den =
                                SumOfRoots(Scale(result.locals.weighted.rad), 0)
                   /\ IsPermutation(result.rank, NumAlternatives)

ZeroDenominatorHandled_witness ==
    /\ Returned /\ NumAlternatives = 3
    /\ result.locals.distance_best[2] = 0 /\ result.locals.distance_worst[2] = 0
    /\ cur_matrix[1] # cur_matrix[2]
    /\ \E j \in 1..NumCriteria(df) : weights[j] # 0

ZeroColumn(j) == \A i \in 1..NumAlternatives : cur_matrix[i][j] = 0

Drop(s, j) == SubSeq(s, 1, j - 1) \o SubSeq(s, j + 1, Len(s))

\* df without its criterion j (column j + 1 of the frame).
DropCriterion(d, j) ==
    [ncols |-> d.ncols - 1,
     rows |-> Array([i \in 1..Len(d.rows) |-> Drop(d.rows[i], j + 1)])]

\* C8: an all-zero criterion column has norm 1, weighted values 0 and adds 0
\* to every distance; the call without that column, weight and impact returns
\* the same scores and the same ranks.
ZeroColumnRemovable ==
    Returned =>
        \A j \in 1..NumCriteria(df) :
            ZeroColumn(j) =>
                /\ result.locals.norms[j] = 1
                /\ \A i \in 1..NumAlternatives :
                      /\ result.locals.weighted.num[i][j] = 0
                      /\ SqDiff(result.locals.weighted.num[i][j], result.locals.weighted.rad[j],
                                result.locals.best.num[j], result.locals.best.rad[j], 1) = 0
                      /\ SqDiff(result.locals.weighted.num[i][j], result.locals.weighted.rad[j],
                                result.locals.worst.num[j], result.locals.worst.rad[j], 1) = 0
                /\ \A without \in {perform_topsis(DropCriterion(df, j),
                                                    Drop(weights, j),
                                                    Drop(impacts, j), sort_impl)} :
                       /\ without.kind = "ok"
                       /\ \A i \in 1..NumAlternatives :
                             FloatEq(without.score[i], result.score[i])
                       /\ without.rank = result.rank

ZeroColumnRemovable_witness ==
    /\ Returned /\ NumAlternatives = 3 /\ NumCriteria(df) = 2
    /\ ZeroColumn(1) /\ weights[1] = 2
    /\ \E i, k \in 1..3 : FloatLess(result.score[i], result.score[k])

\* The order of the validation steps, then the engine and the delivery.
ValidationOrder ==
    <<"file", "weights_present", "impacts_present", "email_present",
      "email_format", "weights_numeric", "impacts_valid", "counts_match",
      "read_csv", "min_columns", "criteria_count", "columns_numeric">>

IsPrefix(s, t) == Len(s) <= Len(t) /\ s = SubSeq(t, 1, Len(s))

\* C9: topsis_api calls perform_topsis only after the twelve validation
\* steps passed, in that order; the first failing step answers 400 and nothing
\* later happens in the request; at the call the lengths of weights and
\* impacts equal the number of criteria columns, at least 2, and every impact
\* is + or -.
EngineCalledAfterValidation ==
    /\ IsPrefix(steps, ValidationOrder \o <<"perform_topsis", "save", "send",
                                            "respond">>)
    /\ (pc = "done" /\ Len(steps) <= Len(ValidationOrder)) => status = 400
    /\ status = 400 =>
          /\ pc = "done" /\ Len(steps) <= Len(ValidationOrder)
          /\ result.kind = "none" /\ ~tmp_path /\ ~tmp_exists
          /\ email_result = "none"
    /\ (pc = "perform_topsis" \/ result.kind # "none") =>
          /\ IsPrefix(ValidationOrder, steps)
          /\ Len(weights) = Len(impacts)
          /\ Len(weights) = NumCriteria(df)
          /\ NumCriteria(df) >= 2
          /\ \A j \in 1..Len(impacts) : impacts[j] \in {"+", "-"}

EngineCalledAfterValidation_witness ==
    /\ pc = "save" /\ Returned
    /\ NumCriteria(df) = 3 /\ NumAlternatives = 2

\* C10: when the request has returned or raised, the temporary file it
\* created is gone; a failed send still answers success with email_sent false.
TempFileRemoved ==
    /\ pc = "done" => ~tmp_exists
    /\ (pc = "done" /\ email_result \in {"not_configured", "auth_failed", "failed"})
          => /\ status = 200
             /\ body = [success |-> "true", email_sent |-> "false"]
====
